---- MODULE Spec2Model ----
(***************************************************************************)
(* Conversation message pipeline of cf-ai-repo-chat.                       *)
(*                                                                         *)
(*   worker/index.ts   Chat.onChatMessage: cleanupMessages(this.messages), *)
(*                     streamText({... stopWhen: stepCountIs(10)}),        *)
(*                     writer.merge(result.toUIMessageStream())            *)
(*   worker/tools.ts   createTools: every tool has an executor that either *)
(*                     returns a result or throws Error("Failed to ...")   *)
(*   react-app/Chat.tsx handleAgentSubmit, toolsRequiringConfirmation      *)
(*                                                                         *)
(* worker/utils.ts (cleanupMessages) is imported by index.ts but is not    *)
(* part of the sources at hand; it is modelled from section 4.1 of the     *)
(* specification.                                                          *)
(*                                                                         *)
(* Two specifications:                                                     *)
(*   Spec     one conversation: user turns, model rounds, tool executions  *)
(*   SanSpec  the sanitizer applied to every bounded history, then applied *)
(*            again to its own output                                      *)
(***************************************************************************)
EXTENDS Integers, Sequences, FiniteSets, TLC

VARIABLES
    messages,         \* this.messages: the durable history
    cleanedMessages,  \* the sanitized copy handed to the model
    status,           \* position of the conversation loop
    steps,            \* model-generation rounds started in this turn
    parts,            \* parts of the assistant message being streamed
    stepStart,        \* Len(parts) when the current round started
    stream,           \* events written to the UI message stream this turn
    executed,         \* executor invocations, in order: call and repository
    nextId,           \* generateId(): next fresh identifier
    turns,            \* user turns submitted so far
    variants,         \* non-default environment choices taken so far
    agentInput,       \* Chat.tsx agentInput: the text in the input box
    home              \* Home.tsx: the landing view and its validation request

vars == <<messages, cleanedMessages, status, steps, parts, stepStart, stream,
          executed, nextId, turns, variants, agentInput, home>>

----------------------------------------------------------------------------
(* Program constants *)

\* stopWhen: stepCountIs(10)
StepBudget == 10

\* const toolsRequiringConfirmation: string[] = [];
toolsRequiringConfirmation == {}

\* const [owner, repo] = decodedName.split("::") -- the repository the
\* conversation is bound to, and another one the model may name
BoundRepo == "owner/repo"

OtherRepo == "other/repo"

\* keys of the object returned by createTools
ToolNames ==
    {"getRepositoryInfo", "listDirectoryContents", "getFileContent",
     "searchCode", "getRepositoryTree", "getRecentCommits", "listBranches",
     "getReadme", "searchIssuesAndPRs"}

----------------------------------------------------------------------------
(* Bounds of the model *)

MaxTurns == 2          \* user turns in one session
MaxLaterSteps == 1     \* model rounds of a turn that is followed by another
                       \* turn, and of every turn after the first
MaxVariants == 1       \* non-default environment choices in one session
MaxCallsPerRound == 2  \* tool calls the model requests in one round
MaxDeltas == 2         \* text-delta events of one text part
MaxMsgs == 2           \* SanSpec: messages of a history
MaxParts == 2          \* SanSpec: parts of a message
MaxRepoLen == 3        \* HomeSpec: tokens of the text typed as repository

----------------------------------------------------------------------------
(* Data model: Message and Part *)

TextPart(n, st) ==
    [type |-> "text", toolCallId |-> 0, toolName |-> "", state |-> st,
     input |-> "", text |-> n, output |-> "", errorText |-> ""]

ToolPart(id, name, st) ==
    [type |-> "tool", toolCallId |-> id, toolName |-> name, state |-> st,
     input |-> BoundRepo, text |-> 0, output |-> "", errorText |-> ""]

Message(id, role, ps) == [id |-> id, role |-> role, parts |-> ps]

isToolUIPart(p) == p.type = "tool"

IsStreamingCall(p) == isToolUIPart(p) /\ p.state = "input-streaming"

Front(s) == SubSeq(s, 1, Len(s) - 1)

Last(s) == s[Len(s)]

----------------------------------------------------------------------------
(* MessageSanitizer (worker/utils.ts cleanupMessages, from spec 4.1) *)

RECURSIVE StripTrailing(_)
\* drop the trailing run of tool parts still in input-streaming
StripTrailing(ps) ==
    IF ps = <<>> THEN <<>>
    ELSE IF IsStreamingCall(Last(ps)) THEN StripTrailing(Front(ps))
    ELSE ps

\* variant that keeps the most recent message when it has no part left
cleanupMessagesKeepEmpty(h) ==
    IF h = <<>> THEN <<>>
    ELSE Append(Front(h),
                [Last(h) EXCEPT !.parts = StripTrailing(Last(h).parts)])

\* only the most recent message is repaired; it is dropped when the
\* stripping left it without parts; every earlier message passes through
cleanupMessages(h) ==
    IF h = <<>> THEN <<>>
    ELSE LET last == Last(h)
             kept == StripTrailing(last.parts)
         IN  IF kept = <<>> /\ last.parts # <<>> THEN Front(h)
             ELSE Append(Front(h), [last EXCEPT !.parts = kept])

----------------------------------------------------------------------------
(* Environment choices.  The model's first choice of every kind is free;  *)
(* each other choice (a second tool, another repository, a throwing       *)
(* executor, text before a tool call, a second call in one round) spends  *)
(* one of MaxVariants; a session in which one was spent takes no further  *)
(* turn.                                                                   *)

\* the tool the model asks for by default, and the other one it may pick
DefaultTool == "listDirectoryContents"

ModelTools == {DefaultTool, "getFileContent"}

\* owner and repo the model may put in a tool input
RepoInputs == {BoundRepo, OtherRepo}

Cost(b) == IF b THEN 1 ELSE 0

Spend(cost) ==
    /\ variants + cost <= MaxVariants
    /\ variants' = variants + cost

\* what the user may type, as a sequence of words and blanks
DefaultInput == <<"hello">>

Inputs == {DefaultInput, <<" ">>, <<"clear">>, <<" ", "clear", " ">>}

RECURSIVE trimStart(_)
trimStart(s) ==
    IF s # <<>> /\ Head(s) = " " THEN trimStart(Tail(s)) ELSE s

RECURSIVE trimEnd(_)
trimEnd(s) ==
    IF s # <<>> /\ Last(s) = " " THEN trimEnd(Front(s)) ELSE s

\* String.prototype.trim
trim(s) == trimEnd(trimStart(s))

Invocation(p) == [toolCallId |-> p.toolCallId, repo |-> p.input]

Invoked(id) == \E k \in 1..Len(executed) : executed[k].toolCallId = id

Event(kind, id) == [kind |-> kind, toolCallId |-> id]

\* indices of the parts produced in the current round
StepParts == (stepStart + 1) .. Len(parts)

StepCalls == {i \in StepParts : isToolUIPart(parts[i])}

needsConfirmation(name) == name \in toolsRequiringConfirmation

Resolved(p) == p.state \in {"output-available", "output-error"}

\* the open text part, if the last part is one
TextOpen == parts # <<>> /\ Last(parts).type = "text"
            /\ Last(parts).state = "streaming"

CallOpen == parts # <<>> /\ IsStreamingCall(Last(parts))

\* close the open text part (text-end)
CloseText(ps) ==
    IF ps # <<>> /\ Last(ps).type = "text" /\ Last(ps).state = "streaming"
    THEN [ps EXCEPT ![Len(ps)].state = "done"]
    ELSE ps

\* stopWhen: stepCountIs(10) -- true once the turn has made that many rounds
stopWhenOffByOne(n) == n = StepBudget + 1

stopWhenEarly(n) == n = StepBudget - 1

stopWhen(n) == n = StepBudget

----------------------------------------------------------------------------
(* Spec: one conversation *)

\* a response to the validation request, as the landing view reads it:
\* json says whether response.json() yields an object
Response(json, st, valid, error) ==
    [json |-> json, status |-> st, valid |-> valid, error |-> error]

NoResponse == Response(FALSE, 0, FALSE, "")

\* the text of the bound repository as typed into the landing form
BoundRepoText == <<"owner", "/", "repo">>

\* the landing view after navigate(`/chat/${repo}`) for the bound repository
\* the pieces of a text between its "/" tokens
RECURSIVE Segments(_)
Segments(s) ==
    IF s = <<>> THEN << <<>> >>
    ELSE LET rest == Segments(Tail(s))
         IN  IF Head(s) = "/" THEN << <<>> >> \o rest
             ELSE << <<Head(s)>> \o Head(rest) >> \o Tail(rest)

\* the path a URL gets from a text appended to a prefix: the URL parser
\* drops trailing blanks, blanks inside stay (percent-encoded)
UrlPath(text) == trimEnd(text)

\* /^\/api\/validate-repo\/([^/]+)\/([^/]+)$/ and /chat/:owner/:repo
RouteMatch(segs) == Len(segs) = 2 /\ segs[1] # <<>> /\ segs[2] # <<>>

\* the repository that exists on GitHub
Exists(segs) == segs = << <<"owner">>, <<"repo">> >>

\* the landing view after navigate(`/chat/${repo}`) for the bound repository
Navigated ==
    [page |-> "chat", repo |-> BoundRepoText, error |-> "", loading |-> TRUE,
     pending |-> FALSE, lookup |-> "succeeded",
     validated |-> Segments(BoundRepoText),
     params |-> Segments(BoundRepoText),
     response |-> Response(TRUE, 200, TRUE, "")]

\* Home.tsx useState(""), useState(""), useState(false) on the landing page
Landing ==
    [page |-> "home", repo |-> <<>>, error |-> "", loading |-> FALSE,
     pending |-> FALSE, lookup |-> "none", validated |-> <<>>,
     params |-> <<>>, response |-> NoResponse]

Init ==
    /\ home = Navigated
    /\ messages = <<>>
    /\ cleanedMessages = <<>>
    /\ status = "Idle"
    /\ steps = 0
    /\ parts = <<>>
    /\ stepStart = 0
    /\ stream = <<>>
    /\ executed = <<>>
    /\ nextId = 1
    /\ turns = 0
    /\ variants = 0
    /\ agentInput = <<>>

\* Chat.tsx handleAgentInputChange: setAgentInput(e.target.value)
\* (typed into an empty or blank box; a text other than DefaultInput spends
\* one of MaxVariants)
handleAgentInputChange(value) ==
    /\ status = "Idle"
    /\ trim(agentInput) = <<>>
    /\ agentInput # value
    /\ Spend(Cost(value # DefaultInput))
    /\ agentInput' = value
    /\ UNCHANGED <<home,
                   messages, cleanedMessages, status, steps, parts, stepStart,
                   stream, executed, nextId, turns>>

\* useAgentChat clearHistory: the message history becomes empty
clearHistory ==
    /\ status = "Idle"
    /\ messages' = <<>>
    /\ UNCHANGED <<home,
                   cleanedMessages, status, steps, parts, stepStart, stream,
                   executed, nextId, turns, variants>>

\* Chat.tsx handleAgentSubmit, a message other than "clear":
\* sendMessage({role: "user", parts: [{type: "text", text: message}]})
SendMessage ==
    /\ status = "Idle"
    /\ turns < MaxTurns
    /\ steps <= MaxLaterSteps
    /\ turns = 0 \/ variants = 0
    /\ messages' = Append(messages,
                          Message(nextId, "user", <<TextPart(1, "done")>>))
    /\ nextId' = nextId + 1
    /\ turns' = turns + 1
    /\ status' = "Submitted"
    /\ UNCHANGED <<home, cleanedMessages, steps, parts, stepStart, stream,
                   executed, variants>>

\* variant that recognizes the command only when typed without blanks
handleAgentSubmitExact ==
    /\ trim(agentInput) # <<>>
    /\ agentInput' = <<>>
    /\ IF agentInput = <<"clear">> THEN clearHistory ELSE SendMessage

\* Chat.tsx handleAgentSubmit: a blank input is ignored; the input box is
\* emptied; "clear" clears the history, any other message is sent
handleAgentSubmit ==
    /\ trim(agentInput) # <<>>
    /\ agentInput' = <<>>
    /\ IF trim(agentInput) = <<"clear">> THEN clearHistory ELSE SendMessage

\* variant that overwrites this.messages with the sanitized history
OnChatMessageInPlace ==
    /\ status = "Submitted"
    /\ cleanedMessages' = cleanupMessages(messages)
    /\ messages' = cleanupMessages(messages)
    /\ status' = "Generating"
    /\ steps' = 1
    /\ parts' = <<>>
    /\ stepStart' = 0
    /\ stream' = <<>>
    /\ UNCHANGED <<home, agentInput, executed, nextId, turns, variants>>

\* Chat.onChatMessage: sanitize a copy of the history and start streamText;
\* the first model round begins
OnChatMessage ==
    /\ status = "Submitted"
    /\ cleanedMessages' = cleanupMessages(messages)
    /\ status' = "Generating"
    /\ steps' = 1
    /\ parts' = <<>>
    /\ stepStart' = 0
    /\ stream' = <<>>
    /\ UNCHANGED <<home,
                   agentInput, messages, executed, nextId, turns, variants>>

\* the model streams a text fragment (text-delta)
ModelTextDelta ==
    /\ status = "Generating"
    /\ IF TextOpen
       THEN /\ Last(parts).text < MaxDeltas
            /\ parts' = [parts EXCEPT ![Len(parts)].text = @ + 1]
       ELSE /\ StepParts = {}
            /\ parts' = Append(parts, TextPart(1, "streaming"))
    /\ stream' = Append(stream, Event("text-delta", 0))
    /\ UNCHANGED <<home, agentInput,
                   messages, cleanedMessages, status, steps, stepStart,
                   executed, nextId, turns, variants>>

\* the model starts a tool call (tool-call-start): a part in input-streaming
ModelToolStart(name, repo) ==
    /\ status = "Generating"
    /\ ~CallOpen
    /\ Cardinality(StepCalls) < MaxCallsPerRound
    /\ LET cost == Cost(name # DefaultTool) + Cost(repo # BoundRepo)
                   + Cost(StepCalls # {})
                   + Cost(StepParts # {} /\ StepCalls = {})
       IN  Spend(cost)
    /\ parts' = Append(CloseText(parts),
                       [ToolPart(nextId, name, "input-streaming")
                           EXCEPT !.input = repo])
    /\ nextId' = nextId + 1
    /\ stream' = Append(stream, Event("tool-call-start", nextId))
    /\ UNCHANGED <<home, agentInput,
                   messages, cleanedMessages, status, steps, stepStart,
                   executed, turns>>

\* the model streams a fragment of the tool input (tool-call-delta)
ModelToolDelta ==
    /\ status = "Generating"
    /\ CallOpen
    /\ Spend(1)
    /\ stream' = Append(stream, Event("tool-call-delta",
                                      Last(parts).toolCallId))
    /\ UNCHANGED <<home, agentInput, messages, cleanedMessages, status, steps,
                   parts, stepStart, executed, nextId, turns>>

\* the tool input is complete (tool-call-ready): input-available; the
\* executor of a tool that needs no confirmation is invoked with that input
ModelToolReady ==
    /\ status = "Generating"
    /\ CallOpen
    /\ parts' = [parts EXCEPT ![Len(parts)].state = "input-available"]
    /\ stream' = Append(stream, Event("tool-call-ready",
                                      Last(parts).toolCallId))
    /\ executed' = IF needsConfirmation(Last(parts).toolName) THEN executed
                   ELSE Append(executed, Invocation(Last(parts)))
    /\ UNCHANGED <<home, agentInput,
                   messages, cleanedMessages, status, steps, stepStart,
                   nextId, turns, variants>>

\* variant that ends a turn without the closing event
ModelFinishSilent ==
    /\ status = "Generating"
    /\ ~CallOpen
    /\ StepParts # {}
    /\ parts' = CloseText(parts)
    /\ status' = IF StepCalls = {} THEN "Done" ELSE "ToolsPending"
    /\ stream' = stream
    /\ UNCHANGED <<home, agentInput,
                   messages, cleanedMessages, steps, stepStart, executed,
                   nextId, turns, variants>>

\* the model ends its output for this round; a round without tool calls
\* ends the turn
ModelFinish ==
    /\ status = "Generating"
    /\ ~CallOpen
    /\ StepParts # {}
    /\ parts' = CloseText(parts)
    /\ IF StepCalls = {}
       THEN /\ status' = "Done"
            /\ stream' = Append(stream, Event("turn-complete", 0))
       ELSE /\ status' = "ToolsPending"
            /\ stream' = stream
    /\ UNCHANGED <<home, agentInput,
                   messages, cleanedMessages, steps, stepStart, executed,
                   nextId, turns, variants>>

\* variant that withdraws the output of the failed round
ModelFailRetracts ==
    /\ status = "Generating"
    /\ status' = "Error"
    /\ parts' = SubSeq(parts, 1, stepStart)
    /\ stream' = Append(stream, Event("error", 0))
    /\ UNCHANGED <<home,
                   agentInput, messages, cleanedMessages, steps, stepStart,
                   executed, nextId, turns, variants>>

\* the model-generation capability fails: the stream carries an error and
\* ends; streamText is not called again
ModelFail ==
    /\ status = "Generating"
    /\ status' = "Error"
    /\ stream' = Append(stream, Event("error", 0))
    /\ UNCHANGED <<home, agentInput,
                   messages, cleanedMessages, steps, parts, stepStart,
                   executed, nextId, turns, variants>>

\* variant in which a throwing executor ends the turn in the error state
ToolExecuteAborts(i, throws) ==
    /\ status \in {"Generating", "ToolsPending"}
    /\ i \in StepCalls
    /\ parts[i].state = "input-available"
    /\ Invoked(parts[i].toolCallId)
    /\ Spend(Cost(throws))
    /\ parts' = IF throws
                THEN [parts EXCEPT ![i].state = "output-error",
                                   ![i].errorText = "Failed to"]
                ELSE [parts EXCEPT ![i].state = "output-available",
                                   ![i].output = "result"]
    /\ status' = IF throws THEN "Error" ELSE status
    /\ stream' = Append(stream, Event("tool-result", parts[i].toolCallId))
    /\ UNCHANGED <<home,
                   agentInput, messages, cleanedMessages, steps, stepStart,
                   executed, nextId, turns>>

\* variant in which a call is executed before its input is complete
ToolExecuteEarly(i, throws) ==
    /\ status \in {"Generating", "ToolsPending"}
    /\ i \in StepCalls
    /\ parts[i].state \in {"input-streaming", "input-available"}
    /\ Spend(Cost(throws))
    /\ parts' = IF throws
                THEN [parts EXCEPT ![i].state = "output-error",
                                   ![i].errorText = "Failed to"]
                ELSE [parts EXCEPT ![i].state = "output-available",
                                   ![i].output = "result"]
    /\ stream' = Append(stream, Event("tool-result", parts[i].toolCallId))
    /\ UNCHANGED <<home, agentInput,
                   messages, cleanedMessages, status, steps, stepStart,
                   executed, nextId, turns>>

\* variant that writes the result back as a new part at the end
ToolExecuteReorders(i, throws) ==
    /\ status \in {"Generating", "ToolsPending"}
    /\ i \in StepCalls
    /\ parts[i].state = "input-available"
    /\ Invoked(parts[i].toolCallId)
    /\ Spend(Cost(throws))
    /\ LET done == IF throws
                   THEN [parts[i] EXCEPT !.state = "output-error",
                                         !.errorText = "Failed to"]
                   ELSE [parts[i] EXCEPT !.state = "output-available",
                                         !.output = "result"]
       IN  parts' = Append(SubSeq(parts, 1, i - 1)
                             \o SubSeq(parts, i + 1, Len(parts)), done)
    /\ stream' = Append(stream, Event("tool-result", parts[i].toolCallId))
    /\ UNCHANGED <<home, agentInput,
                   messages, cleanedMessages, status, steps, stepStart,
                   executed, nextId, turns>>

\* variant in which a failed call carries an output as well
ToolExecuteErrorOutput(i, throws) ==
    /\ status \in {"Generating", "ToolsPending"}
    /\ i \in StepCalls
    /\ parts[i].state = "input-available"
    /\ Invoked(parts[i].toolCallId)
    /\ Spend(Cost(throws))
    /\ parts' = IF throws
                THEN [parts EXCEPT ![i].state = "output-error",
                                   ![i].output = "result",
                                   ![i].errorText = "Failed to"]
                ELSE [parts EXCEPT ![i].state = "output-available",
                                   ![i].output = "result"]
    /\ stream' = Append(stream, Event("tool-result", parts[i].toolCallId))
    /\ UNCHANGED <<home, agentInput,
                   messages, cleanedMessages, status, steps, stepStart,
                   executed, nextId, turns>>

\* tools.ts execute: the invoked executor of an input-available call
\* returns (output-available) or throws Error("Failed to ...")
\* (output-error)
ToolExecute(i, throws) ==
    /\ status \in {"Generating", "ToolsPending"}
    /\ i \in StepCalls
    /\ parts[i].state = "input-available"
    /\ Invoked(parts[i].toolCallId)
    /\ Spend(Cost(throws))
    /\ parts' = IF throws
                THEN [parts EXCEPT ![i].state = "output-error",
                                   ![i].errorText = "Failed to"]
                ELSE [parts EXCEPT ![i].state = "output-available",
                                   ![i].output = "result"]
    /\ stream' = Append(stream, Event("tool-result", parts[i].toolCallId))
    /\ UNCHANGED <<home, agentInput,
                   messages, cleanedMessages, status, steps, stepStart,
                   executed, nextId, turns>>

\* variant that starts the next round without waiting for the results
RoundEndEager ==
    /\ status = "ToolsPending"
    /\ IF stopWhen(steps)
       THEN /\ status' = "Done"
            /\ stream' = Append(stream, Event("turn-complete", 0))
            /\ UNCHANGED <<steps, stepStart>>
       ELSE /\ (turns = 1 \/ steps < MaxLaterSteps)
            /\ status' = "Generating"
            /\ steps' = steps + 1
            /\ stepStart' = Len(parts)
            /\ stream' = stream
    /\ UNCHANGED <<home, agentInput,
                   messages, cleanedMessages, parts, executed, nextId,
                   turns, variants>>

\* every call of the round has a result: the next round starts, unless the
\* stop condition holds
RoundEnd ==
    /\ status = "ToolsPending"
    /\ \A i \in StepCalls : Resolved(parts[i])
    /\ IF stopWhen(steps)
       THEN /\ status' = "Done"
            /\ stream' = Append(stream, Event("turn-complete", 0))
            /\ UNCHANGED <<steps, stepStart>>
       ELSE /\ (turns = 1 \/ steps < MaxLaterSteps)
            /\ status' = "Generating"
            /\ steps' = steps + 1
            /\ stepStart' = Len(parts)
            /\ stream' = stream
    /\ UNCHANGED <<home, agentInput,
                   messages, cleanedMessages, parts, executed, nextId,
                   turns, variants>>

\* the response stream has ended: the assistant message built from it is
\* stored and the conversation is idle again
Finish ==
    /\ status \in {"Done", "Error"}
    /\ messages' = IF parts = <<>> THEN messages
                   ELSE Append(messages, Message(nextId, "assistant", parts))
    /\ nextId' = nextId + 1
    /\ status' = "Idle"
    /\ UNCHANGED <<home,
                   agentInput, cleanedMessages, steps, parts, stepStart, stream,
                   executed, turns, variants>>

Next ==
    \/ \E value \in Inputs : handleAgentInputChange(value)
    \/ handleAgentSubmit
    \/ OnChatMessage
    \/ ModelTextDelta
    \/ \E name \in ModelTools, repo \in RepoInputs : ModelToolStart(name, repo)
    \/ ModelToolDelta
    \/ ModelToolReady
    \/ ModelFinish
    \/ ModelFail
    \/ \E i \in 1..Len(parts), throws \in BOOLEAN : ToolExecute(i, throws)
    \/ RoundEnd
    \/ Finish

Spec == Init /\ [][Next]_vars

----------------------------------------------------------------------------
(* SanSpec: onChatMessage entered with any stored history of at most       *)
(* MaxMsgs messages of at most MaxParts parts; the sanitizer is then       *)
(* applied once more to the copy it produced.                              *)

PartShapes == {"text", "input-streaming", "input-available",
               "output-available", "output-error"}

PartOf(shape, id) ==
    CASE shape = "text" -> TextPart(1, "done")
      [] shape = "output-available" ->
            [ToolPart(id, DefaultTool, shape) EXCEPT !.output = "result"]
      [] shape = "output-error" ->
            [ToolPart(id, DefaultTool, shape) EXCEPT !.errorText = "Failed to"]
      [] OTHER -> ToolPart(id, DefaultTool, shape)

ShapeSeqs == UNION {[1..n -> PartShapes] : n \in 0..MaxParts}

\* a user message is one text part (sendMessage, executeTask); an assistant
\* message is any sequence of parts, the empty one included
MessageShapes ==
    {<<"user", <<"text">> >>} \cup ({"assistant"} \X ShapeSeqs)

HistoryShapes(n) == [1..n -> MessageShapes]

\* message m has id m; its k-th part has toolCallId 10 * m + k
HistoryOf(hs) ==
    [m \in 1..Len(hs) |->
        Message(m, hs[m][1],
                [k \in 1..Len(hs[m][2]) |-> PartOf(hs[m][2][k], 10 * m + k)])]

SanInit ==
    /\ home = Navigated
    /\ \E n \in 0..MaxMsgs :
          \E hs \in HistoryShapes(n) : messages = HistoryOf(hs)
    /\ cleanedMessages = <<>>
    /\ status = "Submitted"
    /\ steps = 0
    /\ parts = <<>>
    /\ stepStart = 0
    /\ stream = <<>>
    /\ executed = <<>>
    /\ nextId = 1
    /\ turns = 1
    /\ variants = 0
    /\ agentInput = <<>>

\* the sanitizer applied to its own output
Resanitize ==
    /\ status = "Generating"
    /\ cleanedMessages' = cleanupMessages(cleanedMessages)
    /\ status' = "Resanitized"
    /\ UNCHANGED <<home, agentInput,
                   messages, steps, parts, stepStart, stream, executed,
                   nextId, turns, variants>>

SanNext == OnChatMessage \/ Resanitize

SanSpec == SanInit /\ [][SanNext]_vars

----------------------------------------------------------------------------
(* The landing view (Home.tsx) and the validate-repo route, from the      *)
(* landing page on.                                                        *)

chatVars == <<messages, cleanedMessages, status, steps, parts, stepStart,
              stream, executed, nextId, turns, variants, agentInput>>

\* what the user may type as repository: words, blanks and slashes
RepoTokens == {" ", "/", "owner", "repo", "missing"}

RepoTexts == UNION {[1..n -> RepoTokens] : n \in 0..MaxRepoLen}

HomeInit ==
    /\ home = Landing
    /\ messages = <<>>
    /\ cleanedMessages = <<>>
    /\ status = "Idle"
    /\ steps = 0
    /\ parts = <<>>
    /\ stepStart = 0
    /\ stream = <<>>
    /\ executed = <<>>
    /\ nextId = 1
    /\ turns = 0
    /\ variants = 0
    /\ agentInput = <<>>

\* Home.tsx onChange: setRepo(e.target.value); the input is disabled
\* while loading (a text is typed into the empty box, or the box emptied)
setRepo(value) ==
    /\ home.page = "home"
    /\ ~home.loading
    /\ home.repo # value
    /\ home.repo = <<>> \/ value = <<>>
    /\ home' = [home EXCEPT !.repo = value]
    /\ UNCHANGED chatVars

\* Home.tsx handleSubmit up to the await: a blank text is refused, any
\* other starts the validation request; the button is disabled while
\* loading
handleSubmit ==
    /\ home.page = "home"
    /\ ~home.loading
    /\ IF trim(home.repo) = <<>>
       THEN home' = [home EXCEPT !.error = "Please enter a repository"]
       ELSE home' = [home EXCEPT !.loading = TRUE, !.error = "",
                                 !.pending = TRUE, !.lookup = "none",
                                 !.validated = <<>>,
                                 !.response = NoResponse]
    /\ UNCHANGED chatVars

\* worker fetch: GET /api/validate-repo/:owner/:repo looks the repository
\* up on GitHub; any other path falls through to "Not found", 404
validateRepo(outcome) ==
    /\ home.pending
    /\ home.response = NoResponse
    /\ LET segs == Segments(UrlPath(home.repo))
       IN  IF RouteMatch(segs)
           THEN /\ outcome = "succeeded" => Exists(segs)
                /\ home' = [home EXCEPT
                     !.lookup = outcome,
                     !.validated = segs,
                     !.response =
                         IF outcome = "succeeded"
                         THEN Response(TRUE, 200, TRUE, "")
                         ELSE Response(TRUE, 500, FALSE,
                                       "Failed to validate repository")]
           ELSE /\ outcome = "failed"
                /\ home' = [home EXCEPT
                     !.response = Response(FALSE, 404, FALSE, "")]
    /\ UNCHANGED chatVars

\* the request fails before any response arrives: fetch rejects
fetchRejects ==
    /\ home.pending
    /\ home.response = NoResponse
    /\ home' = [home EXCEPT !.response = Response(FALSE, -1, FALSE, "")]
    /\ UNCHANGED chatVars

\* variant that navigates on every response that parses as JSON
handleSubmitResumeUnchecked ==
    /\ home.pending
    /\ home.response # NoResponse
    /\ IF ~home.response.json
       THEN home' = [home EXCEPT !.pending = FALSE, !.loading = FALSE,
                                 !.error = "Failed to validate repository"]
       ELSE home' = [home EXCEPT !.pending = FALSE, !.page = "chat",
                                 !.params = Segments(UrlPath(home.repo))]
    /\ UNCHANGED chatVars

\* Home.tsx handleSubmit after the await: response.json() throwing or a
\* rejected fetch goes to catch; valid false shows the error; otherwise
\* navigate(`/chat/${repo}`)
handleSubmitResume ==
    /\ home.pending
    /\ home.response # NoResponse
    /\ IF ~home.response.json
       THEN home' = [home EXCEPT !.pending = FALSE, !.loading = FALSE,
                                 !.error = "Failed to validate repository"]
       ELSE IF ~home.response.valid
       THEN home' = [home EXCEPT
                !.pending = FALSE, !.loading = FALSE,
                !.error = IF home.response.error # ""
                          THEN home.response.error
                          ELSE "Repository not found"]
       ELSE home' = [home EXCEPT !.pending = FALSE, !.page = "chat",
                                 !.params = Segments(UrlPath(home.repo))]
    /\ UNCHANGED chatVars

HomeNext ==
    \/ \E value \in RepoTexts : setRepo(value)
    \/ handleSubmit
    \/ \E outcome \in {"succeeded", "failed"} : validateRepo(outcome)
    \/ fetchRejects
    \/ handleSubmitResume

HomeSpec == HomeInit /\ [][HomeNext]_vars

----------------------------------------------------------------------------
(* Properties *)

HasStreamingCall(ps) == \E k \in 1..Len(ps) : IsStreamingCall(ps[k])

AllStreamingCalls(ps) == \A k \in 1..Len(ps) : IsStreamingCall(ps[k])

RoundHasError == \E i \in StepCalls : parts[i].state = "output-error"

\* C1: in every state of a turn the number of model-generation rounds made
\* so far is at most the round budget of 10
RoundBound == steps <= StepBudget

RoundBoundWitness == status = "Generating" /\ steps = StepBudget

\* C2: a turn whose every round asked for tool calls is Done after exactly
\* 10 rounds, with the calls of the last round resolved and the stream
\* closed by turn-complete, not by an error
BudgetForcesDone ==
    (status = "Done" /\ StepCalls # {}) =>
        /\ steps = StepBudget
        /\ \A i \in StepCalls : Resolved(parts[i])
        /\ Last(stream).kind = "turn-complete"
        /\ \A k \in 1..Len(stream) : stream[k].kind # "error"

BudgetForcesDoneWitness ==
    status = "Done" /\ StepCalls # {} /\ steps = StepBudget

\* C3: after sanitization the last message holds no tool part in
\* input-streaming, at any position
NoDanglingCalls ==
    (status = "Generating" /\ cleanedMessages # <<>>) =>
        ~HasStreamingCall(Last(cleanedMessages).parts)

\* C4: sanitizing a sanitized history gives the same history
SanitizeIdempotent ==
    [][status = "Generating" => cleanedMessages' = cleanedMessages]_vars

\* C5: sanitization leaves the stored history as it was, and every message
\* but the most recent one is in the copy, unchanged and at the same place
SanitizeFrame ==
    [][(status = "Submitted" /\ status' = "Generating") =>
          /\ messages' = messages
          /\ Len(cleanedMessages') >= Len(messages) - 1
          /\ \A m \in 1..(Len(messages) - 1) :
                cleanedMessages'[m] = messages[m]]_vars

SanitizeFrameWitness ==
    /\ status = "Generating"
    /\ Len(messages) = 2
    /\ cleanedMessages # messages
    /\ Len(cleanedMessages) = 2
    /\ cleanedMessages[1] = messages[1]

\* C6: a last message whose parts are all stripped is removed, no message
\* of the output was emptied by the sanitizer, and the empty history is
\* sanitized to the empty history
NoVacuousMessage ==
    status = "Generating" =>
        /\ (messages = <<>>) => (cleanedMessages = <<>>)
        /\ (messages # <<>> /\ Last(messages).parts # <<>>
              /\ AllStreamingCalls(Last(messages).parts))
           => cleanedMessages = Front(messages)
        /\ \A m \in 1..Len(cleanedMessages) :
              cleanedMessages[m].parts = <<>> =>
                 (m <= Len(messages) /\ messages[m] = cleanedMessages[m])

NoVacuousMessageWitness ==
    /\ status = "Generating"
    /\ Len(messages) = 2
    /\ Len(Last(messages).parts) = 2
    /\ AllStreamingCalls(Last(messages).parts)
    /\ cleanedMessages = Front(messages)

\* C7 as stated: a round in which an executor threw is always followed by
\* another model-generation round
ToolFailureThenNextRound ==
    [][(status = "ToolsPending" /\ RoundHasError /\ status' # status) =>
          status' = "Generating"]_vars

\* C7 amended: a throwing executor leaves its part in output-error with a
\* failure text and does not change the state of the loop; the round it
\* belongs to is followed by the next model round with the parts intact,
\* or, when it was the 10th round, by Done
ToolFailureLocal ==
    [][/\ \A i \in 1..Len(parts) :
            (i <= Len(parts') /\ parts[i].state # "output-error"
               /\ parts'[i].state = "output-error")
            => /\ status' = status
               /\ parts[i].state = "input-available"
               /\ parts'[i].errorText # ""
               /\ parts'[i].output = ""
       /\ (status = "ToolsPending" /\ RoundHasError /\ status' # status) =>
            IF steps < StepBudget
            THEN status' = "Generating" /\ steps' = steps + 1
                 /\ parts' = parts
            ELSE status' = "Done" /\ parts' = parts]_vars

ToolFailureLocalWitness ==
    /\ status = "Generating"
    /\ steps >= 2
    /\ \E i \in 1..stepStart : parts[i].state = "output-error"

\* C8: a model failure ends the turn in the error state without taking
\* back any part or event; the only step from there stores the parts
\* streamed so far and returns to Idle, and no further round is started
ModelFailureEndsTurn ==
    [][/\ (status = "Generating" /\ status' = "Error") =>
            /\ parts' = parts
            /\ steps' = steps
            /\ Len(stream') = Len(stream) + 1
            /\ SubSeq(stream', 1, Len(stream)) = stream
       /\ (status = "Error" /\ status' # status) =>
            /\ status' = "Idle"
            /\ steps' = steps
            /\ stream' = stream
            /\ parts # <<>> => (messages' # <<>>
                                /\ Last(messages').parts = parts)]_vars

ModelFailureEndsTurnWitness ==
    /\ status = "Submitted"
    /\ turns = 2
    /\ stream # <<>> /\ Last(stream).kind = "error"
    /\ \E k \in 1..Len(parts) : parts[k].type = "text" /\ parts[k].text >= 1
    /\ Len(messages) = 3
    /\ messages[2].parts = parts

\* C12: every executor invocation is made for the repository the
\* conversation is bound to, whatever repository the tool input names
RepoBinding ==
    \A k \in 1..Len(executed) : executed[k].repo = BoundRepo

\* C13: submitting the command clear empties the history, starts no model
\* call and appends no user message
ClearDiscards ==
    [][(trim(agentInput) = <<"clear">> /\ agentInput' = <<>>)
          => /\ messages' = <<>>
             /\ status' = "Idle"
             /\ UNCHANGED <<home, cleanedMessages, steps, stream, turns>>]_vars

ClearDiscardsWitness ==
    /\ messages = <<>>
    /\ turns >= 1
    /\ status = "Idle"
    /\ agentInput = <<>>

Earlier(kind, id, i) ==
    \E j \in 1..(i - 1) : stream[j] = Event(kind, id)

\* C14: in the event stream of a response the events of one toolCallId come
\* in the order tool-call-start, tool-call-delta*, tool-call-ready,
\* tool-result
ToolEventOrder ==
    \A i \in 1..Len(stream) :
        LET e == stream[i]
            id == e.toolCallId
        IN  /\ e.kind = "tool-call-start"
                => ~\E j \in 1..(i - 1) : stream[j].toolCallId = id
            /\ e.kind = "tool-call-delta"
                => /\ Earlier("tool-call-start", id, i)
                   /\ ~Earlier("tool-call-ready", id, i)
            /\ e.kind = "tool-call-ready"
                => /\ Earlier("tool-call-start", id, i)
                   /\ ~Earlier("tool-call-ready", id, i)
            /\ e.kind = "tool-result"
                => /\ Earlier("tool-call-ready", id, i)
                   /\ ~Earlier("tool-result", id, i)

ToolEventOrderWitness ==
    \E i \in 1..Len(stream) :
        /\ stream[i].kind = "tool-result"
        /\ Earlier("tool-call-delta", stream[i].toolCallId, i)
        /\ \E j \in 1..(i - 1) :
              /\ stream[j].kind = "tool-call-start"
              /\ stream[j].toolCallId # stream[i].toolCallId

Position(kind, id) ==
    CHOOSE i \in 1..Len(stream) : stream[i] = Event(kind, id)

\* C15: while a round is generated every tool invocation of the earlier
\* rounds has its result, and that result was emitted before any event of
\* a call of the current round, in whatever order the executions finished
RoundsSequential ==
    \A i \in 1..stepStart :
        isToolUIPart(parts[i])
            => /\ Resolved(parts[i])
               /\ \A j \in (stepStart + 1)..Len(parts) :
                     isToolUIPart(parts[j])
                         => Position("tool-result", parts[i].toolCallId)
                              < Position("tool-call-start",
                                         parts[j].toolCallId)

RoundsSequentialWitness ==
    \E i, k \in 1..stepStart :
        /\ i < k
        /\ isToolUIPart(parts[i])
        /\ isToolUIPart(parts[k])
        /\ Resolved(parts[i])
        /\ Resolved(parts[k])
        /\ Position("tool-result", parts[k].toolCallId)
              < Position("tool-result", parts[i].toolCallId)
        /\ \E j \in (stepStart + 1)..Len(parts) : isToolUIPart(parts[j])

WasInvoked(p) == isToolUIPart(p) /\ Invoked(p.toolCallId)

\* the invoked calls of the turn, in the order of parts, are the latest
\* invocations, in the order they were made
InvocationOrder ==
    LET calls == SelectSeq(parts, WasInvoked)
        n == Len(calls)
        m == Len(executed)
    IN  /\ n <= m
        /\ \A j \in 1..n :
              executed[m - n + j].toolCallId = calls[j].toolCallId

IsResolution ==
    /\ Len(stream') = Len(stream) + 1
    /\ Last(stream').kind = "tool-result"

\* C17: executors are invoked in the order of the tool parts, and writing
\* a result back keeps the number of parts and, at every position, the
\* part that was there: only the resolved part changes, and only in its
\* state and result
ResolutionKeepsParts ==
    /\ []InvocationOrder
    /\ [][IsResolution
            => /\ Len(parts') = Len(parts)
               /\ \A i \in 1..Len(parts) :
                     /\ parts'[i].type = parts[i].type
                     /\ parts'[i].toolCallId = parts[i].toolCallId
                     /\ parts'[i].toolCallId # Last(stream').toolCallId
                            => parts'[i] = parts[i]]_vars

ResolutionKeepsPartsWitness ==
    \E i, k \in StepCalls :
        /\ i < k
        /\ parts[i].state = "input-available"
        /\ Resolved(parts[k])
        /\ Len(executed) >= 2

ToolParts == {i \in 1..Len(parts) : isToolUIPart(parts[i])}

\* C19: a round without tool calls ends the turn in Done with its text as
\* the final output and turn-complete as the last event; after one call
\* of a tool that needs no confirmation and a text-only reply the turn is
\* Done after exactly one tool round
TextOnlyEndsTurn ==
    /\ [][(status = "Generating" /\ StepCalls = {}
             /\ status' \notin {"Generating", "Error"})
            => /\ status' = "Done"
               /\ steps' = steps
               /\ parts' = CloseText(parts)]_vars
    /\ [](status = "Done" /\ StepCalls = {}
            => /\ Last(parts).type = "text"
               /\ Last(parts).state = "done"
               /\ Last(stream).kind = "turn-complete"
               /\ \A k \in 1..Len(stream) : stream[k].kind # "error"
               /\ Cardinality(ToolParts) = 1
                    => /\ steps = 2
                       /\ \A i \in ToolParts :
                             parts[i].state = "output-available"
                               \/ parts[i].state = "output-error")

TextOnlyEndsTurnWitness ==
    /\ status = "Done"
    /\ steps = 2
    /\ Len(parts) = 2
    /\ parts[1].toolName = "listDirectoryContents"
    /\ ~needsConfirmation(parts[1].toolName)
    /\ parts[1].state = "output-available"
    /\ parts[2].type = "text"
    /\ Last(stream).kind = "turn-complete"

Rank(st) ==
    CASE st = "input-streaming" -> 1
      [] st = "input-available" -> 2
      [] OTHER -> 3

OutputWhenAvailable(ps) ==
    \A i \in 1..Len(ps) :
        isToolUIPart(ps[i])
            => (ps[i].output # "" <=> ps[i].state = "output-available")

\* C20: a tool part moves from input-streaming to input-available and then
\* to output-available or output-error, one state at a time; it never
\* leaves output-available or output-error and never goes back; it has an
\* output exactly when it is output-available
PartStateForward ==
    /\ [](/\ OutputWhenAvailable(parts)
          /\ \A m \in 1..Len(messages) :
                OutputWhenAvailable(messages[m].parts))
    /\ [][\A i \in 1..Len(parts) :
            (/\ isToolUIPart(parts[i])
             /\ i <= Len(parts')
             /\ parts'[i].toolCallId = parts[i].toolCallId)
            => /\ Rank(parts'[i].state) - Rank(parts[i].state) \in {0, 1}
               /\ Resolved(parts[i]) => parts'[i] = parts[i]]_vars

PartStateForwardWitness ==
    \E i, k \in ToolParts :
        /\ parts[i].state = "output-error"
        /\ parts[k].state = "output-available"

\* C22: the landing view shows the conversation view only after a
\* validate-repo response with valid true for the repository of that view;
\* a failed GitHub lookup is answered with valid false and status 500, and
\* the landing view then stays on the landing page with an error shown
\* and loading false, the text kept for another submission
ValidatedNavigation ==
    /\ [](home.page = "chat"
            => /\ home.response = Response(TRUE, 200, TRUE, "")
               /\ home.lookup = "succeeded"
               /\ home.validated = home.params)
    /\ [](home.lookup = "failed"
            => home.response = Response(TRUE, 500, FALSE,
                                        "Failed to validate repository"))
    /\ [][(home.pending /\ ~home'.pending /\ home.lookup = "failed")
            => /\ home'.page = "home"
               /\ home'.error # ""
               /\ ~home'.loading
               /\ home'.repo = home.repo
               /\ trim(home'.repo) # <<>>]_vars

ValidatedNavigationWitness ==
    /\ home.page = "home"
    /\ home.lookup = "failed"
    /\ ~home.pending
    /\ ~home.loading
    /\ home.error = "Failed to validate repository"
    /\ home.response.status = 500
    /\ Exists(home.validated)

====
